---- MODULE Spec2Model ----
(***************************************************************************)
(* A model of aero_cli: the key resolver (config.py), the command surface  *)
(* (cli.py), the FlightAware client (aero_api.py) and the formatters       *)
(* (aero_api.py, util.py).                                                 *)
(*                                                                         *)
(* Python values are represented as follows.                               *)
(*   str             a TLA+ string; a str that the code takes apart        *)
(*                   (split, rstrip, substring test) is given as the tuple *)
(*                   of its characters and joined back with Join           *)
(*   None            None where the other values are strings, NoneObj      *)
(*                   where the other values are dicts or tables            *)
(*   dict            a function from keys to values; a missing key is a    *)
(*                   key outside DOMAIN.  A dict whose iteration order     *)
(*                   matters (the parsed response body) is a record        *)
(*                   [items |-> the sequence of its <<key, value>> pairs]  *)
(*   a call          a record [raised, value]: raised is NoExc when the    *)
(*                   call returns value, else the name of the exception    *)
(***************************************************************************)
EXTENDS Integers, Sequences, FiniteSets, TLC

VARIABLES
    environ,     \* os.environ restricted to AEROAPI_KEY
    fs,          \* the files that exist: path -> characters of the content
    command,     \* the operation that ran last
    args,        \* its arguments
    exit_code,   \* exit code of the last CLI command
    stdout,      \* lines printed by the last operation
    uncaught,    \* exception that left the last operation, or NoExc
    api,         \* the AeroAPI instance (NoneObj when none was constructed)
    http_log,    \* HTTP requests issued by the last operation
    response,    \* the server's answer to the last operation
    ret,         \* (payload, cursor) returned by the last operation
    last_ok,     \* history: what the most recent successful request returned
    fn_in,       \* input of the function that was applied last
    fn_out       \* its result

vars == <<environ, fs, command, args, exit_code, stdout, uncaught, api,
          http_log, response, ret, last_ok, fn_in, fn_out>>

-----------------------------------------------------------------------------
(* Python built-ins *)

None == "<None>"
NoneObj == [NoneType |-> TRUE]
NoExc == "<no exception>"
Missing == "<missing argument>"
EmptyDict == [k \in {} |-> None]

Ok(v) == [raised |-> NoExc, value |-> v]
Raise(exc, msg) == [raised |-> exc, value |-> msg]

\* f'{v}' for a str or None
Format(v) == IF v = None THEN "None" ELSE v

\* repr() of a str without single quotes
Repr(s) == "'" \o s \o "'"

\* ''.join(chars)
RECURSIVE Join(_)
Join(chars) == IF chars = <<>> THEN "" ELSE Head(chars) \o Join(Tail(chars))

Whitespace == {" ", "\n", "\t", "\r"}

\* str.rstrip() on the characters of a str
RECURSIVE rstrip(_)
rstrip(chars) ==
    IF chars = <<>> THEN <<>>
    ELSE IF chars[Len(chars)] \in Whitespace
         THEN rstrip(SubSeq(chars, 1, Len(chars) - 1))
         ELSE chars

\* str.split(sep) for a one-character sep: the list of the pieces
RECURSIVE split(_, _)
split(chars, sep) ==
    IF \A i \in 1..Len(chars) : chars[i] # sep THEN <<chars>>
    ELSE LET i == CHOOSE j \in 1..Len(chars) :
                      /\ chars[j] = sep
                      /\ \A k \in 1..(j - 1) : chars[k] # sep
         IN <<SubSeq(chars, 1, i - 1)>> \o split(SubSeq(chars, i + 1, Len(chars)), sep)

\* sub in chars
Contains(chars, sub) ==
    \E i \in 0..(Len(chars) - Len(sub)) :
        \A j \in 1..Len(sub) : chars[i + j] = sub[j]

Digits == <<"0", "1", "2", "3", "4", "5", "6", "7", "8", "9">>

\* str(n) for an int, as characters
RECURSIVE NatToChars(_)
NatToChars(n) == IF n < 10 THEN <<Digits[n + 1]>>
                 ELSE Append(NatToChars(n \div 10), Digits[(n % 10) + 1])
IntToChars(n) == IF n < 0 THEN <<"-">> \o NatToChars(-n) ELSE NatToChars(n)

\* str.zfill(width): zeros go between a leading sign and the rest
RECURSIVE Zeros(_)
Zeros(k) == IF k <= 0 THEN <<>> ELSE <<"0">> \o Zeros(k - 1)
zfill(chars, width) ==
    IF chars # <<>> /\ chars[1] \in {"+", "-"}
    THEN <<chars[1]>> \o Zeros(width - Len(chars)) \o Tail(chars)
    ELSE Zeros(width - Len(chars)) \o chars

\* abs(n)
abs(n) == IF n < 0 THEN -n ELSE n

\* dict.get(key, default)
Get(d, key, default) == IF key \in DOMAIN d THEN d[key] ELSE default

\* an insertion-ordered dict: keys, d[key] and d.pop(key, None)
Keys(d) == {d.items[i][1] : i \in 1..Len(d.items)}
Item(d, key) == d.items[CHOOSE i \in 1..Len(d.items) : d.items[i][1] = key][2]
Pop(d, key) == [items |-> SelectSeq(d.items, LAMBDA kv : kv[1] # key)]

-----------------------------------------------------------------------------
(* config.py *)

_get_key_from_file(key_path) ==
    IF key_path \in DOMAIN fs
    THEN Ok(Join(rstrip(fs[key_path])))
    ELSE Raise("FileNotFoundError", key_path)

init_app(key_path) ==
    IF "AEROAPI_KEY" \in DOMAIN environ
    THEN Ok(environ["AEROAPI_KEY"])
    ELSE IF key_path # None
         THEN LET r == _get_key_from_file(key_path)
              IN IF r.raised = "FileNotFoundError"
                 THEN Raise("APIKeyError",
                            "AeroAPI key not found in \"AEROAPI_KEY\" env var or file "
                                \o key_path \o ".")
                 ELSE r
         ELSE Raise("APIKeyError", "AeroAPI key not found in \"AEROAPI_KEY\" env var.")

\* exceptions.py, APIKeyError.__str__
APIKeyError__str__(msg) == Repr(msg)

-----------------------------------------------------------------------------
(* aero_api.py *)

\* names bound at module level by the import statements
ModuleNames == {"requests", "os", "sys", "typing", "Path", "pd"}

DTG_FMT == "%Y-%m-%dT%H:%M:%S"

api_url == "https://aeroapi.flightaware.com/aeroapi"

AeroAPI__init__(api_key) ==
    LET new(key) == [_api_key |-> key,
                     _api_url |-> api_url,
                     _session |-> [headers |-> ("x-apikey" :> key)],
                     _payload |-> NoneObj,
                     _cursor  |-> None]
    IN IF api_key = None
       THEN IF "AEROAPI_KEY" \notin DOMAIN environ
            THEN Raise("ValueError", "User must provide FlightAware Aero API key.")
            ELSE Ok(new(environ["AEROAPI_KEY"]))
       ELSE Ok(new(api_key))

_get_airport_request_url(self, req_type, icao, kwargs) ==
    LET req_str == self._api_url \o "/airports/" \o Format(icao) \o "/flights/"
    IN IF req_type = "flights_to"
       THEN IF "dest" \notin DOMAIN kwargs
            THEN Raise("ValueError",
                       "\"dest\" parameter must be given for \"flights_to\" request.")
            ELSE Ok(req_str \o "to/" \o Format(kwargs["dest"]))
       ELSE Ok(req_str \o req_type)

col_names == <<"flight_num", "origin", "dest", "origin_gate", "origin_terminal",
               "dest_gate", "dest_terminal", "filed_ete", "rte_dist", "acft_type",
               "acft_reg", "sched_out", "est_out", "act_out", "sched_off", "est_off",
               "act_off", "sched_on", "est_on", "act_on", "sched_in", "est_in",
               "act_in", "dep_delay", "arr_delay">>

\* the characters of each key of this_dict, for the substring test on column names
Spell ==
    ("flight_num" :> <<"f", "l", "i", "g", "h", "t", "_", "n", "u", "m">>) @@
    ("origin" :> <<"o", "r", "i", "g", "i", "n">>) @@
    ("dest" :> <<"d", "e", "s", "t">>) @@
    ("origin_gate" :> <<"o", "r", "i", "g", "i", "n", "_", "g", "a", "t", "e">>) @@
    ("origin_terminal" :> <<"o", "r", "i", "g", "i", "n", "_", "t", "e", "r", "m", "i", "n", "a", "l">>) @@
    ("dest_gate" :> <<"d", "e", "s", "t", "_", "g", "a", "t", "e">>) @@
    ("dest_terminal" :> <<"d", "e", "s", "t", "_", "t", "e", "r", "m", "i", "n", "a", "l">>) @@
    ("filed_ete" :> <<"f", "i", "l", "e", "d", "_", "e", "t", "e">>) @@
    ("rte_dist" :> <<"r", "t", "e", "_", "d", "i", "s", "t">>) @@
    ("acft_type" :> <<"a", "c", "f", "t", "_", "t", "y", "p", "e">>) @@
    ("acft_reg" :> <<"a", "c", "f", "t", "_", "r", "e", "g">>) @@
    ("sched_out" :> <<"s", "c", "h", "e", "d", "_", "o", "u", "t">>) @@
    ("est_out" :> <<"e", "s", "t", "_", "o", "u", "t">>) @@
    ("act_out" :> <<"a", "c", "t", "_", "o", "u", "t">>) @@
    ("sched_off" :> <<"s", "c", "h", "e", "d", "_", "o", "f", "f">>) @@
    ("est_off" :> <<"e", "s", "t", "_", "o", "f", "f">>) @@
    ("act_off" :> <<"a", "c", "t", "_", "o", "f", "f">>) @@
    ("sched_on" :> <<"s", "c", "h", "e", "d", "_", "o", "n">>) @@
    ("est_on" :> <<"e", "s", "t", "_", "o", "n">>) @@
    ("act_on" :> <<"a", "c", "t", "_", "o", "n">>) @@
    ("sched_in" :> <<"s", "c", "h", "e", "d", "_", "i", "n">>) @@
    ("est_in" :> <<"e", "s", "t", "_", "i", "n">>) @@
    ("act_in" :> <<"a", "c", "t", "_", "i", "n">>) @@
    ("dep_delay" :> <<"d", "e", "p", "_", "d", "e", "l", "a", "y">>) @@
    ("arr_delay" :> <<"a", "r", "r", "_", "d", "e", "l", "a", "y">>) @@
    ("ete" :> <<"e", "t", "e">>)

\* this_dict key -> <<field of the flight entry, default>>
FieldMap ==
    ("flight_num" :> <<"ident", "UNKN">>) @@
    ("acft_type" :> <<"aircraft_type", "UNKN">>) @@
    ("acft_reg" :> <<"registration", "UNKN">>) @@
    ("sched_out" :> <<"scheduled_out", "UNKN">>) @@
    ("est_out" :> <<"estimated_out", "UNKN">>) @@
    ("act_out" :> <<"actual_out", "UNKN">>) @@
    ("sched_off" :> <<"scheduled_off", "UNKN">>) @@
    ("est_off" :> <<"estimated_off", "UNKN">>) @@
    ("act_off" :> <<"actual_off", "UNKN">>) @@
    ("sched_on" :> <<"scheduled_on", "UNKN">>) @@
    ("est_on" :> <<"estimated_on", "UNKN">>) @@
    ("act_on" :> <<"actual_on", "UNKN">>) @@
    ("sched_in" :> <<"scheduled_in", "UNKN">>) @@
    ("est_in" :> <<"estimated_in", "UNKN">>) @@
    ("act_in" :> <<"actual_in", "UNKN">>) @@
    ("dep_delay" :> <<"departure_delay", "UNKN">>) @@
    ("arr_delay" :> <<"arrival_delay", "UNKN">>) @@
    ("origin_gate" :> <<"gate_origin", "TBD">>) @@
    ("origin_terminal" :> <<"terminal_origin", "TBD">>) @@
    ("dest_gate" :> <<"gate_destination", "TBD">>) @@
    ("dest_terminal" :> <<"terminal_destination", "TBD">>) @@
    ("rte_dist" :> <<"route_distance", "UNKN">>) @@
    ("ete" :> <<"filed_ete", "UNKN">>)
NaN == "NaN"
NaT == "NaT"

\* datetime.strptime(s, DTG_FMT) for the well-formed timestamps of the model
strptime ==
    ("2024-01-02T03:04:05" :>
        [year |-> 2024, month |-> 1, day |-> 2, hour |-> 3, minute |-> 4, second |-> 5]) @@
    ("2024-01-02T05:30:00" :>
        [year |-> 2024, month |-> 1, day |-> 2, hour |-> 5, minute |-> 30, second |-> 0])

\* pd.to_datetime(val, format=DTG_FMT, errors='coerce') of one cell
to_datetime(val) == IF val \in DOMAIN strptime THEN strptime[val] ELSE NaT

\* any([x in col_name for x in ['sched_', 'est_', 'act_']])
is_time_col(col_name) ==
    \E x \in {<<"s", "c", "h", "e", "d", "_">>, <<"e", "s", "t", "_">>,
              <<"a", "c", "t", "_">>} : Contains(Spell[col_name], x)

\* pd.DataFrame(df_list, columns=columns): a key of a row dict that is no
\* column is dropped, a column that is no key of the row dict is NaN
DataFrame(df_list, columns) ==
    [columns |-> columns,
     rows    |-> [i \in 1..Len(df_list) |->
                    [c \in {columns[j] : j \in 1..Len(columns)} |->
                        Get(df_list[i], c, NaN)]]]

\* for key, val in this_dict.items(): this_dict.update({key: 'UNKN'})
force_unkn(this_dict) ==
    [key \in DOMAIN this_dict |->
        IF this_dict[key] = "" \/ this_dict[key] = None
        THEN "UNKN" ELSE this_dict[key]]

\* the body of the loop over flt_list for one flight entry: the rows it
\* appends to df_list (none when the entry is skipped)
flt_rows(flt_dict) ==
    LET o == Get(flt_dict, "origin", NoneObj)
        d == Get(flt_dict, "destination", NoneObj)
    IN IF o = NoneObj \/ d = NoneObj
       THEN Raise("AttributeError", "'NoneType' object has no attribute 'get'")
       ELSE LET origin == Get(o, "code", None)
                dest   == Get(d, "code", None)
                this_dict ==
                    [key \in DOMAIN FieldMap \cup {"origin", "dest"} |->
                        IF key = "origin" THEN origin
                        ELSE IF key = "dest" THEN dest
                        ELSE Get(flt_dict, FieldMap[key][1], FieldMap[key][2])]
            IN IF origin = None \/ dest = None
               THEN Ok(<<>>)
               ELSE Ok(<<force_unkn(this_dict)>>)

\* df_list after two consecutive stretches of the loops: the first exception
\* ends the loops, otherwise the rows of both in order
extend(h, t) ==
    IF h.raised # NoExc THEN h
    ELSE IF t.raised # NoExc THEN t
    ELSE Ok(h.value \o t.value)

\* for flt_dict in flt_list
RECURSIVE flt_list_rows(_)
flt_list_rows(flt_list) ==
    IF flt_list = <<>> THEN Ok(<<>>)
    ELSE extend(flt_rows(Head(flt_list)), flt_list_rows(Tail(flt_list)))

\* for j_key, flt_list in json_data.items()
RECURSIVE items_rows(_)
items_rows(items) ==
    IF items = <<>> THEN Ok(<<>>)
    ELSE extend(flt_list_rows(Head(items)[2]), items_rows(Tail(items)))

\* the loop over sched_df.items(): every column whose name has a time marker
\* is replaced by its conversion
convert_times(sched_df) ==
    [columns |-> sched_df.columns,
     rows    |-> [i \in DOMAIN sched_df.rows |->
                    [c \in DOMAIN sched_df.rows[i] |->
                        IF is_time_col(c)
                        THEN to_datetime(sched_df.rows[i][c])
                        ELSE sched_df.rows[i][c]]]]

\* the table built from df_list, when the loops ended without an exception
table_of(df_list) ==
    IF df_list.raised # NoExc THEN df_list
    ELSE Ok(convert_times(DataFrame(df_list.value, col_names)))

_json_to_df(json_data) == table_of(items_rows(json_data.items))

\* response.json() of a body that is not JSON
InvalidJSON == [JSONDecodeError |-> TRUE]

\* a str of the response body that the code splits: its characters
Str(chars) == [str |-> chars]

\* the result of a method of AeroAPI: the exception or the returned value,
\* the instance afterwards, the HTTP requests issued and the lines printed
Result(raised, value, self, requests, printed) ==
    [raised |-> raised, value |-> value, self |-> self,
     requests |-> requests, stdout |-> printed]

\* the (payload, cursor) tuple a request operation returns, NoneObj when it raises
Returned(r) ==
    IF r.raised = NoExc THEN [payload |-> r.value[1], cursor |-> r.value[2]]
    ELSE NoneObj

\* next_chunk.split('&')[-1].split('=')[1]
cursor_of(next_chunk) ==
    LET amp == split(next_chunk, "&")
    IN LET last == split(amp[Len(amp)], "=")
       IN IF Len(last) < 2
          THEN Raise("IndexError", "list index out of range")
          ELSE Ok(Join(last[2]))

\* json_data['links']['next'] and the cursor
next_cursor(links) ==
    IF links = NoneObj
    THEN Raise("TypeError", "'NoneType' object is not subscriptable")
    ELSE IF "next" \notin DOMAIN links THEN Raise("KeyError", "next")
    ELSE IF links["next"] = NoneObj
    THEN Raise("AttributeError", "'NoneType' object has no attribute 'split'")
    ELSE cursor_of(links["next"].str)

\* extract_cursor reading num_pages with json_data.get('num_pages')
extract_cursor_lenient(json_data) ==
    IF json_data = NoneObj
    THEN Raise("TypeError", "'NoneType' object is not subscriptable")
    ELSE IF "links" \notin Keys(json_data) THEN Raise("KeyError", "links")
    ELSE next_cursor(Item(json_data, "links"))

\* _make_request: num_pages, next_chunk and cursor
extract_cursor(json_data) ==
    IF json_data = NoneObj
    THEN Raise("TypeError", "'NoneType' object is not subscriptable")
    ELSE IF "num_pages" \notin Keys(json_data) THEN Raise("KeyError", "num_pages")
    ELSE IF "links" \notin Keys(json_data) THEN Raise("KeyError", "links")
    ELSE next_cursor(Item(json_data, "links"))

\* {key: val for key, val in kwargs if val is not None}: iterating a dict
\* yields its keys, and a key unpacks into (key, val) only when it has two
\* characters; no key of the model has
req_params_of(kwargs) ==
    IF \E key \in DOMAIN kwargs : Len(key) # 2
    THEN Raise("ValueError", "too many values to unpack (expected 2)")
    ELSE Ok(EmptyDict)

\* fetch storing the cursor before the payload is normalized
fetch_cursor_first(self, request, resp, cursor, payload) ==
    IF resp.status_code >= 400 /\ resp.status_code < 600
    THEN Result("HTTPError", NoneObj, self, <<request>>, <<>>)
    ELSE IF resp.json = InvalidJSON
    THEN Result("JSONDecodeError", NoneObj, self, <<request>>, <<>>)
    ELSE IF cursor.raised # NoExc
    THEN Result(cursor.raised, NoneObj, self, <<request>>, <<>>)
    ELSE IF payload.raised # NoExc
    THEN Result(payload.raised, NoneObj, [self EXCEPT !._cursor = cursor.value],
                <<request>>, <<>>)
    ELSE Result(NoExc, <<payload.value, cursor.value>>,
                [self EXCEPT !._payload = payload.value, !._cursor = cursor.value],
                <<request>>, <<>>)

\* _make_request from the GET on: the status check, the parse, the cursor,
\* the payload and the saved state
fetch(self, request, resp, cursor, payload) ==
    IF resp.status_code >= 400 /\ resp.status_code < 600
    THEN Result("HTTPError", NoneObj, self, <<request>>, <<>>)
    ELSE IF resp.json = InvalidJSON
    THEN Result("JSONDecodeError", NoneObj, self, <<request>>, <<>>)
    ELSE IF cursor.raised # NoExc
    THEN Result(cursor.raised, NoneObj, self, <<request>>, <<>>)
    ELSE IF payload.raised # NoExc
    THEN Result(payload.raised, NoneObj, self, <<request>>, <<>>)
    ELSE Result(NoExc, <<payload.value, cursor.value>>,
                [self EXCEPT !._payload = payload.value, !._cursor = cursor.value],
                <<request>>, <<>>)

\* the payload of a response whose cursor was extracted
payload_of(json_data, return_json) ==
    IF return_json THEN Ok(json_data) ELSE _json_to_df(json_data)

_make_request(self, req_url, return_json, kwargs, resp) ==
    IF req_params_of(kwargs).raised # NoExc
    THEN Result(req_params_of(kwargs).raised, NoneObj, self, <<>>, <<>>)
    ELSE fetch(self,
               [method  |-> "GET",
                url     |-> req_url,
                params  |-> req_params_of(kwargs).value,
                headers |-> self._session.headers],
               resp,
               extract_cursor(resp.json),
               payload_of(Pop(Pop(resp.json, "links"), "num_pages"), return_json))

\* save_state clearing the cursor: self._cursor = None
save_state_reset(r, printed) ==
    IF r.raised # NoExc THEN [r EXCEPT !.stdout = printed]
    ELSE Result(NoExc, r.value,
                [r.self EXCEPT !._payload = r.value[1], !._cursor = None],
                r.requests, printed)

\* self._payload = payload; self._cursor = cursor; return payload, cursor
\* (and the lines the operation printed before the request)
save_state(r, printed) ==
    IF r.raised # NoExc THEN [r EXCEPT !.stdout = printed]
    ELSE Result(NoExc, r.value,
                [r.self EXCEPT !._payload = r.value[1], !._cursor = r.value[2]],
                r.requests, printed)

\* the request of an operation whose URL was built
request(self, url, printed, resp) ==
    IF url.raised # NoExc
    THEN Result(url.raised, NoneObj, self, <<>>, <<>>)
    ELSE save_state(_make_request(self, url.value, FALSE, EmptyDict, resp),
                    IF printed THEN <<url.value>> ELSE <<>>)

get_arrivals(self, icao, kwargs, resp) ==
    request(self, _get_airport_request_url(self, "arrivals", icao, kwargs),
            TRUE, resp)

get_scheduled_arrivals(self, icao, kwargs, resp) ==
    request(self, _get_airport_request_url(self, "scheduled_arrivals", icao, kwargs),
            FALSE, resp)

get_departures(self, icao, kwargs, resp) ==
    request(self, _get_airport_request_url(self, "departures", icao, kwargs),
            FALSE, resp)

get_scheduled_departures(self, icao, kwargs, resp) ==
    request(self, _get_airport_request_url(self, "scheduled_departures", icao, kwargs),
            FALSE, resp)

\* dest is a required positional parameter: a call without it is a TypeError
get_flights_between(self, origin, dest, kwargs, resp) ==
    IF dest = Missing
    THEN Result("TypeError", NoneObj, self, <<>>, <<>>)
    ELSE request(self,
                 _get_airport_request_url(self, "flights_to", origin, [dest |-> dest]),
                 FALSE, resp)

\* str(timedelta(seconds=seconds)) for seconds >= 0, as characters
timedelta__str__(seconds) ==
    LET days == seconds \div 86400
        rem  == seconds % 86400
        hh   == rem \div 3600
        mm   == (rem % 3600) \div 60
        ss   == rem % 60
        s    == IntToChars(hh) \o <<":">> \o zfill(IntToChars(mm), 2)
                    \o <<":">> \o zfill(IntToChars(ss), 2)
    IN IF days # 0
       THEN IntToChars(days) \o <<" ", "d", "a", "y">>
                \o (IF days # 1 THEN <<"s">> ELSE <<>>) \o <<",", " ">> \o s
       ELSE s

seconds_to_hours_mins(sec) ==
    IF "timedelta" \notin ModuleNames
    THEN Raise("NameError", "name 'timedelta' is not defined")
    ELSE LET neg    == sec < 0
             td     == timedelta__str__(abs(sec))
             t_arr  == split(td, ":")
             hr_min == zfill(t_arr[1], 2) \o <<":">> \o zfill(t_arr[2], 2)
         IN Ok(Join(IF neg THEN <<"-">> \o hr_min ELSE hr_min))

-----------------------------------------------------------------------------
(* util.py *)

sec_to_hour_min(secs) ==
    LET mins  == secs \div 60
        hours == mins \div 60
        mins2 == mins % 60
    IN Ok(Join(zfill(IntToChars(hours), 2) \o <<":">> \o zfill(IntToChars(mins2), 2)))

-----------------------------------------------------------------------------
(* cli.py *)

\* the try statement of _init around r = config.init_app(key_path):
\* typer.Exit(1) is constructed and not raised, so that _init goes on to
\* return api_key, still None, after printing the error
print_err(r) ==
    IF r.raised # NoExc
    THEN [value |-> None, stdout |-> <<APIKeyError__str__(r.value)>>]
    ELSE [value |-> r.value, stdout |-> <<>>]

_init(api_key, key_path) ==
    IF api_key = None
    THEN print_err(init_app(key_path))
    ELSE [value |-> api_key, stdout |-> <<>>]

\* what a command leaves behind: an exception that leaves the command makes
\* the process exit with code 1, a command that returns exits with code 0
Outcome(exc, printed, inst, requests, returned) ==
    [exit_code |-> IF exc = NoExc THEN 0 ELSE 1,
     stdout    |-> printed,
     uncaught  |-> exc,
     api       |-> inst,
     requests  |-> requests,
     ret       |-> returned]

\* a command from the construction of the client on: a failed construction
\* ends it, otherwise the request operation does
finish(api_key, a, r) ==
    IF a.raised # NoExc
    THEN Outcome(a.raised, api_key.stdout, NoneObj, <<>>, NoneObj)
    ELSE Outcome(r.raised, api_key.stdout \o r.stdout, r.self, r.requests, Returned(r))

init(api_key, key_path) ==
    Outcome(NoExc, _init(api_key, key_path).stdout, NoneObj, <<>>, NoneObj)

\* api_key = _init(); api = AeroAPI(api_key=api_key)
client == AeroAPI__init__(_init(None, None).value)

arrivals(airport, carrier, resp) ==
    finish(_init(None, None), client,
           get_arrivals(client.value, airport, [carrier |-> carrier], resp))

sched_arrivals(airport, carrier, resp) ==
    finish(_init(None, None), client,
           get_scheduled_arrivals(client.value, airport, [carrier |-> carrier], resp))

departures(airport, carrier, resp) ==
    finish(_init(None, None), client,
           get_departures(client.value, airport, [carrier |-> carrier], resp))

sched_departures(airport, carrier, resp) ==
    finish(_init(None, None), client,
           get_scheduled_departures(client.value, airport, [carrier |-> carrier], resp))

flights_between(origin, dest, carrier, resp) ==
    finish(_init(None, None), client,
           get_flights_between(client.value, origin, dest, [carrier |-> carrier], resp))

route(ident, outfile) == Outcome("NotImplementedError", <<>>, NoneObj, <<>>, NoneObj)

track(ident, outfile) == Outcome("NotImplementedError", <<>>, NoneObj, <<>>, NoneObj)

-----------------------------------------------------------------------------
(* Inputs *)

Keys_ == {"ABC123", ""}
KeyPaths == {"key.txt", "nokey.txt"}
Airports == {"KLAX"}
Dests == {"KJFK", "", None, Missing}
Carriers == {None, "UAL"}

\* the environments a command can start in
Environs == {EmptyDict} \cup {("AEROAPI_KEY" :> k) : k \in Keys_}

\* the file systems a command can start in: key.txt absent, or holding a key
\* followed by a newline, or holding only white space
FileSystems == {EmptyDict,
                ("key.txt" :> <<"X", "Y", "Z", "\n">>),
                ("key.txt" :> <<"X", "Y", " ", "Z", " ", "\n">>),
                ("key.txt" :> <<"\n">>)}

\* flight entries of a response
E_full ==
    [origin |-> [code |-> "KLAX"], destination |-> [code |-> "KJFK"],
     ident |-> "UAL1", aircraft_type |-> "B738", registration |-> "N12345",
     scheduled_out |-> "2024-01-02T03:04:05", estimated_out |-> "2024-01-02T03:04:05",
     scheduled_in |-> "2024-01-02T05:30:00", actual_in |-> "not a time",
     departure_delay |-> "125", arrival_delay |-> "-125",
     gate_origin |-> "B2", terminal_origin |-> "7",
     gate_destination |-> "C4", terminal_destination |-> "4",
     route_distance |-> "2475", filed_ete |-> "3661"]
E_bare == [origin |-> [code |-> "KSFO"], destination |-> [code |-> "KJFK"]]
E_empty ==
    [origin |-> [code |-> "KLAX"], destination |-> [code |-> ""],
     ident |-> "", aircraft_type |-> None, gate_origin |-> None,
     gate_destination |-> "", filed_ete |-> "", scheduled_out |-> None]
E_null_origin == [origin |-> NoneObj, destination |-> [code |-> "KJFK"], ident |-> "UAL2"]
E_no_dest == [origin |-> [code |-> "KLAX"], ident |-> "UAL3"]
E_null_code == [origin |-> [code |-> None], destination |-> [code |-> "KJFK"],
                ident |-> "UAL4"]
E_no_code == [origin |-> [code |-> "KLAX"], destination |-> EmptyDict, ident |-> "UAL5"]

\* next links of a response
L_two    == <<"/", "a", "?", "m", "=", "1", "&", "c", "u", "r", "s", "o", "r", "=",
              "a", "b", "c", "1", "2", "3">>
L_one    == <<"/", "a", "?", "c", "u", "r", "s", "o", "r", "=", "x", "1">>
L_eq     == <<"/", "a", "?", "m", "=", "1", "&", "c", "u", "r", "s", "o", "r", "=",
              "a", "b", "=", "=">>
L_empty  == <<"/", "a", "?", "m", "=", "1", "&", "c", "u", "r", "s", "o", "r", "=">>
L_flag   == <<"/", "a", "?", "m", "=", "1", "&", "f", "l", "a", "g">>

\* a well-formed response body
Body(next, flt_list) ==
    [items |-> << <<"links", [next |-> Str(next)]>>, <<"num_pages", 1>>,
                  <<"arrivals", flt_list>> >>]

GoodBodies ==
    {Body(next, <<E_full>>) : next \in {L_two, L_one, L_eq, L_empty, L_flag}}
    \cup {Body(L_two, flt_list) :
            flt_list \in {<<E_bare, E_null_code>>, <<E_full, E_null_origin>>}}

\* bodies that lack num_pages or links.next, and null
BadBodies ==
    {[items |-> << <<"links", [next |-> Str(L_two)]>>, <<"arrivals", <<E_full>> >> >>],
     [items |-> << <<"num_pages", 1>>, <<"arrivals", <<E_full>> >> >>],
     [items |-> << <<"links", NoneObj>>, <<"num_pages", 1>>, <<"arrivals", <<E_full>> >> >>],
     [items |-> << <<"links", EmptyDict>>, <<"num_pages", 1>>, <<"arrivals", <<E_full>> >> >>],
     [items |-> << <<"links", [next |-> NoneObj]>>, <<"num_pages", 1>>,
                   <<"arrivals", <<E_full>> >> >>],
     NoneObj}

Responses ==
    {[status_code |-> 200, json |-> b] : b \in GoodBodies \cup BadBodies \cup {InvalidJSON}}
    \cup {[status_code |-> 404, json |-> [items |-> <<>>]]}

-----------------------------------------------------------------------------
(* The command surface: one command per process, each in the environment and
   file system the process was started in *)

InitCli ==
    /\ environ \in Environs
    /\ fs \in FileSystems
    /\ command = "none"
    /\ args = NoneObj
    /\ exit_code = 0
    /\ stdout = <<>>
    /\ uncaught = NoExc
    /\ api = NoneObj
    /\ http_log = <<>>
    /\ response = NoneObj
    /\ ret = NoneObj
    /\ last_ok = NoneObj
    /\ fn_in = NoneObj
    /\ fn_out = NoneObj

\* the state a command leaves
Ran(a, resp, o) ==
    /\ args' = a
    /\ exit_code' = o.exit_code
    /\ stdout' = o.stdout
    /\ uncaught' = o.uncaught
    /\ api' = o.api
    /\ http_log' = o.requests
    /\ response' = IF o.requests = <<>> THEN NoneObj ELSE resp
    /\ ret' = o.ret
    /\ last_ok' = o.ret
    /\ UNCHANGED <<environ, fs, fn_in, fn_out>>

CmdInit ==
    \E api_key \in Keys_ \cup {None}, key_path \in KeyPaths \cup {None} :
        /\ command' = "init"
        /\ Ran([api_key |-> api_key, key_path |-> key_path], NoneObj,
            init(api_key, key_path))

CmdArrivals ==
    \E airport \in Airports, carrier \in Carriers, resp \in Responses :
        /\ command' = "arrivals"
        /\ Ran([airport |-> airport, carrier |-> carrier], resp,
            arrivals(airport, carrier, resp))

CmdSchedArrivals ==
    \E airport \in Airports, carrier \in Carriers, resp \in Responses :
        /\ command' = "sched-arrivals"
        /\ Ran([airport |-> airport, carrier |-> carrier], resp,
            sched_arrivals(airport, carrier, resp))

CmdDepartures ==
    \E airport \in Airports, carrier \in Carriers, resp \in Responses :
        /\ command' = "departures"
        /\ Ran([airport |-> airport, carrier |-> carrier], resp,
            departures(airport, carrier, resp))

CmdSchedDepartures ==
    \E airport \in Airports, carrier \in Carriers, resp \in Responses :
        /\ command' = "sched-departures"
        /\ Ran([airport |-> airport, carrier |-> carrier], resp,
            sched_departures(airport, carrier, resp))

\* DEST is a required argument of the command
CmdFlightsBetween ==
    \E origin \in Airports, dest \in Dests \ {None, Missing}, carrier \in Carriers,
       resp \in Responses :
        /\ command' = "flights-between"
        /\ Ran([origin |-> origin, dest |-> dest, carrier |-> carrier],
            resp, flights_between(origin, dest, carrier, resp))

CmdRoute ==
    /\ command' = "route"
    /\ Ran([ident |-> "UAL1-1"], NoneObj, route("UAL1-1", None))

CmdTrack ==
    /\ command' = "track"
    /\ Ran([ident |-> "UAL1-1"], NoneObj, track("UAL1-1", None))

NextCli ==
    \/ CmdInit
    \/ CmdArrivals
    \/ CmdSchedArrivals
    \/ CmdDepartures
    \/ CmdSchedDepartures
    \/ CmdFlightsBetween
    \/ CmdRoute
    \/ CmdTrack

SpecCli == InitCli /\ [][NextCli]_vars

-----------------------------------------------------------------------------
(* One AeroAPI instance and any sequence of its request operations *)

InitApi ==
    /\ environ = EmptyDict
    /\ fs = EmptyDict
    /\ command = "AeroAPI"
    /\ args = NoneObj
    /\ exit_code = 0
    /\ stdout = <<>>
    /\ uncaught = NoExc
    /\ api = AeroAPI__init__("ABC123").value
    /\ http_log = <<>>
    /\ response = NoneObj
    /\ ret = NoneObj
    /\ last_ok = NoneObj
    /\ fn_in = NoneObj
    /\ fn_out = NoneObj

\* keyword arguments of a request operation
Kwargs == {EmptyDict} \cup {[carrier |-> c] : c \in Carriers}

\* the state a request operation leaves
Called(a, resp, r) ==
    /\ args' = a
    /\ stdout' = r.stdout
    /\ uncaught' = r.raised
    /\ api' = r.self
    /\ http_log' = r.requests
    /\ response' = IF r.requests = <<>> THEN NoneObj ELSE resp
    /\ ret' = Returned(r)
    /\ last_ok' = IF r.raised = NoExc THEN Returned(r) ELSE last_ok
    /\ UNCHANGED <<environ, fs, exit_code, fn_in, fn_out>>

GetArrivals ==
    \E icao \in Airports, kwargs \in Kwargs, resp \in Responses :
        /\ command' = "get_arrivals"
        /\ Called([icao |-> icao, kwargs |-> kwargs], resp,
               get_arrivals(api, icao, kwargs, resp))

GetScheduledArrivals ==
    \E icao \in Airports, kwargs \in Kwargs, resp \in Responses :
        /\ command' = "get_scheduled_arrivals"
        /\ Called([icao |-> icao, kwargs |-> kwargs], resp,
               get_scheduled_arrivals(api, icao, kwargs, resp))

GetDepartures ==
    \E icao \in Airports, kwargs \in Kwargs, resp \in Responses :
        /\ command' = "get_departures"
        /\ Called([icao |-> icao, kwargs |-> kwargs], resp,
               get_departures(api, icao, kwargs, resp))

GetScheduledDepartures ==
    \E icao \in Airports, kwargs \in Kwargs, resp \in Responses :
        /\ command' = "get_scheduled_departures"
        /\ Called([icao |-> icao, kwargs |-> kwargs], resp,
               get_scheduled_departures(api, icao, kwargs, resp))

GetFlightsBetween ==
    \E origin \in Airports, dest \in Dests, kwargs \in Kwargs, resp \in Responses :
        /\ command' = "get_flights_between"
        /\ Called([origin |-> origin, dest |-> dest, kwargs |-> kwargs], resp,
               get_flights_between(api, origin, dest, kwargs, resp))

NextApi ==
    \/ GetArrivals
    \/ GetScheduledArrivals
    \/ GetDepartures
    \/ GetScheduledDepartures
    \/ GetFlightsBetween

SpecApi == InitApi /\ [][NextApi]_vars

-----------------------------------------------------------------------------
(* Credential resolution as a function of the explicit key, the key file
   path, the environment and the file system *)

Call_init ==
    \E api_key \in Keys_ \cup {None}, key_path \in KeyPaths \cup {None} :
        /\ command' = "_init"
        /\ fn_in' = [api_key |-> api_key, key_path |-> key_path]
        /\ fn_out' = _init(api_key, key_path)
        /\ UNCHANGED <<environ, fs, args, exit_code, stdout, uncaught, api,
                       http_log, response, ret, last_ok>>

Call_init_app ==
    \E key_path \in KeyPaths \cup {None} :
        /\ command' = "init_app"
        /\ fn_in' = [api_key |-> None, key_path |-> key_path]
        /\ fn_out' = init_app(key_path)
        /\ UNCHANGED <<environ, fs, args, exit_code, stdout, uncaught, api,
                       http_log, response, ret, last_ok>>

NextKey == Call_init \/ Call_init_app

SpecKey == InitCli /\ [][NextKey]_vars

-----------------------------------------------------------------------------
(* Normalization of a response body without links and num_pages *)

MaxFlights == 2
MaxGroups == 2

Entries == {E_full, E_bare, E_empty, E_null_origin, E_no_dest, E_null_code, E_no_code}
GroupKeys == <<"arrivals", "scheduled_arrivals", "departures", "scheduled_departures">>

FlightLists == UNION {[1..n -> Entries] : n \in 0..MaxFlights}

JsonInputs ==
    UNION {{[items |-> [g \in 1..n |-> <<GroupKeys[g], lists[g]>>]] :
                lists \in [1..n -> FlightLists]} : n \in 0..MaxGroups}

InitNorm ==
    /\ environ = EmptyDict
    /\ fs = EmptyDict
    /\ command = "none"
    /\ args = NoneObj
    /\ exit_code = 0
    /\ stdout = <<>>
    /\ uncaught = NoExc
    /\ api = NoneObj
    /\ http_log = <<>>
    /\ response = NoneObj
    /\ ret = NoneObj
    /\ last_ok = NoneObj
    /\ fn_in \in JsonInputs
    /\ fn_out = NoneObj

Call_json_to_df ==
    /\ command = "none"
    /\ command' = "_json_to_df"
    /\ fn_out' = _json_to_df(fn_in)
    /\ UNCHANGED <<environ, fs, args, exit_code, stdout, uncaught, api,
                   http_log, response, ret, last_ok, fn_in>>

NextNorm == Call_json_to_df

SpecNorm == InitNorm /\ [][NextNorm]_vars

-----------------------------------------------------------------------------
(* The two seconds formatters *)

MaxSeconds == 130

Seconds == (-MaxSeconds..MaxSeconds)
           \cup {3600, 3661, -3661, 35999, 86399, 86400, 90000, -90000, 180000}

InitFmt ==
    /\ environ = EmptyDict
    /\ fs = EmptyDict
    /\ command = "none"
    /\ args = NoneObj
    /\ exit_code = 0
    /\ stdout = <<>>
    /\ uncaught = NoExc
    /\ api = NoneObj
    /\ http_log = <<>>
    /\ response = NoneObj
    /\ ret = NoneObj
    /\ last_ok = NoneObj
    /\ fn_in \in Seconds
    /\ fn_out = NoneObj

Call_seconds_to_hours_mins ==
    /\ command' = "seconds_to_hours_mins"
    /\ fn_out' = seconds_to_hours_mins(fn_in)
    /\ UNCHANGED <<environ, fs, args, exit_code, stdout, uncaught, api,
                   http_log, response, ret, last_ok, fn_in>>

Call_sec_to_hour_min ==
    /\ command' = "sec_to_hour_min"
    /\ fn_out' = sec_to_hour_min(fn_in)
    /\ UNCHANGED <<environ, fs, args, exit_code, stdout, uncaught, api,
                   http_log, response, ret, last_ok, fn_in>>

NextFmt == Call_seconds_to_hours_mins \/ Call_sec_to_hour_min

SpecFmt == InitFmt /\ [][NextFmt]_vars

-----------------------------------------------------------------------------
(* Properties *)

RequestOps == {"get_arrivals", "get_scheduled_arrivals", "get_departures",
               "get_scheduled_departures", "get_flights_between"}

ResolvingCommands == {"init", "arrivals", "sched-arrivals", "departures",
                      "sched-departures", "flights-between"}

\* the content of a file up to its last character that is no white space
Stripped(chars) ==
    LET keep == {i \in 1..Len(chars) : chars[i] \notin Whitespace}
    IN Join(SubSeq(chars, 1,
                   IF keep = {} THEN 0 ELSE CHOOSE i \in keep : \A j \in keep : j <= i))

\* the credential the resolution order of the specification gives, as the
\* result of a call
Resolved(api_key, key_path) ==
    IF api_key # None THEN Ok(api_key)
    ELSE IF "AEROAPI_KEY" \in DOMAIN environ /\ environ["AEROAPI_KEY"] # ""
    THEN Ok(environ["AEROAPI_KEY"])
    ELSE IF key_path # None /\ key_path \in DOMAIN fs
    THEN Ok(Stripped(fs[key_path]))
    ELSE Raise("APIKeyError", None)

\* C1: credential resolution returns an explicit key unchanged; otherwise
\* AEROAPI_KEY when it is set and not empty; otherwise the content of the
\* key file, when a path is given and the file exists, without its trailing
\* white space; otherwise it fails with APIKeyError.  An AEROAPI_KEY that is
\* set and empty never yields an empty credential.
CredentialResolutionOrder ==
    /\ command = "_init" =>
          LET want == Resolved(fn_in.api_key, fn_in.key_path)
          IN IF want.raised = NoExc
             THEN fn_out.value = want.value
             ELSE fn_out.value = None /\ fn_out.stdout # <<>>
    /\ command = "init_app" =>
          LET want == Resolved(None, fn_in.key_path)
          IN /\ fn_out.raised = want.raised
             /\ want.raised = NoExc => fn_out.value = want.value
    /\ (command \in {"_init", "init_app"}
          /\ fn_in.api_key = None
          /\ "AEROAPI_KEY" \in DOMAIN environ
          /\ environ["AEROAPI_KEY"] = ""
          /\ ~(fn_in.key_path # None /\ fn_in.key_path \in DOMAIN fs
                 /\ Stripped(fs[fn_in.key_path]) = ""))
       => fn_out.value # ""

\* the credential of the last command cannot be resolved: no explicit key,
\* AEROAPI_KEY unset, and the key file not given or not found
ResolutionFails ==
    /\ command \in ResolvingCommands
    /\ "AEROAPI_KEY" \notin DOMAIN environ
    /\ command = "init" =>
          /\ args.api_key = None
          /\ args.key_path = None \/ args.key_path \notin DOMAIN fs

\* C2: a command whose credential resolution fails prints an error message
\* and ends with a non-zero exit code, without constructing a client or
\* issuing an HTTP request.
CredentialFailureExitsNonZero ==
    ResolutionFails =>
        /\ exit_code # 0
        /\ stdout # <<>>
        /\ api = NoneObj
        /\ http_log = <<>>

\* the URLs of the requests the last operation issued
Urls == {http_log[i].url : i \in 1..Len(http_log)}

\* C3: get_flights_between fails with a validation error when dest is
\* missing, None or empty, and then issues no request; for any other dest it
\* requests exactly <base>/airports/<origin>/flights/to/<dest>.
FlightsBetweenValidatesDest ==
    command = "get_flights_between" =>
        IF args.dest \in {Missing, None, ""}
        THEN /\ uncaught \in {"ValueError", "TypeError"}
             /\ http_log = <<>>
        ELSE Urls = {api_url \o "/airports/" \o args.origin \o "/flights/to/"
                         \o args.dest}

\* C4: the GET of a request operation carries the carrier filter as the
\* query parameter 'carrier' when one is given, and no 'carrier' parameter
\* when the carrier is None or not given.
CarrierIsQueryParameter ==
    command \in RequestOps =>
        \A i \in 1..Len(http_log) :
            IF Get(args.kwargs, "carrier", None) # None
            THEN /\ "carrier" \in DOMAIN http_log[i].params
                 /\ http_log[i].params["carrier"] = args.kwargs["carrier"]
            ELSE "carrier" \notin DOMAIN http_log[i].params

\* C5: the stored payload and cursor of the client are the pair the most
\* recent successful request returned, and both are None before the first
\* successful request.
StoredIsLastReturned ==
    api # NoneObj =>
        IF last_ok = NoneObj
        THEN api._payload = NoneObj /\ api._cursor = None
        ELSE api._payload = last_ok.payload /\ api._cursor = last_ok.cursor

\* a failed request after a successful one that returned a table of one row
\* and the cursor of the two-parameter next link
StoredSurvivesFailure ==
    /\ command \in RequestOps
    /\ uncaught # NoExc
    /\ last_ok # NoneObj
    /\ api._cursor = "abc123"
    /\ Len(api._payload.rows) = 1

\* all flight entries of a body, in the order received
RECURSIVE AllEntries(_)
AllEntries(items) ==
    IF items = <<>> THEN <<>> ELSE Head(items)[2] \o AllEntries(Tail(items))

\* the entry has an origin code and a destination code
HasCodes(e) ==
    /\ "origin" \in DOMAIN e /\ e.origin # NoneObj
    /\ "code" \in DOMAIN e.origin /\ e.origin.code # None
    /\ "destination" \in DOMAIN e /\ e.destination # NoneObj
    /\ "code" \in DOMAIN e.destination /\ e.destination.code # None

\* the value a table holds for a field of an entry
Shown(e, field, default) ==
    IF field \notin DOMAIN e THEN default
    ELSE IF e[field] \in {"", None} THEN "UNKN" ELSE e[field]

\* C6: normalization emits one row for each entry that has both codes, in
\* the order received and with duplicates; every other entry, also one
\* whose origin or destination is null or absent, is skipped and nothing is
\* raised.
OneRowPerCompleteEntry ==
    command = "_json_to_df" =>
        /\ fn_out.raised = NoExc
        /\ LET want == SelectSeq(AllEntries(fn_in.items), HasCodes)
               rows == fn_out.value.rows
           IN /\ Len(rows) = Len(want)
              /\ \A i \in 1..Len(want) :
                    /\ rows[i]["flight_num"] = Shown(want[i], "ident", "UNKN")
                    /\ rows[i]["origin"] = Shown(want[i].origin, "code", "UNKN")
                    /\ rows[i]["dest"] = Shown(want[i].destination, "code", "UNKN")

ListedFields == {"flight_num", "origin", "dest", "origin_gate", "origin_terminal",
                  "dest_gate", "dest_terminal", "filed_ete", "rte_dist", "acft_type",
                  "acft_reg", "dep_delay", "arr_delay"}

\* C7: in the table normalization returns, no identifier, code, gate,
\* terminal, elapsed time, distance, aircraft or delay field of a row is an
\* empty string or null or missing.
NoEmptyField ==
    (command = "_json_to_df" /\ fn_out.raised = NoExc) =>
        \A i \in 1..Len(fn_out.value.rows) : \A c \in ListedFields :
            /\ c \in DOMAIN fn_out.value.rows[i]
            /\ fn_out.value.rows[i][c] \notin {"", None, NaN, NaT}

\* the part of chars after the first (last) occurrence of c, all of chars
\* when c does not occur
AfterFirst(chars, c) ==
    LET at == {i \in 1..Len(chars) : chars[i] = c}
    IN IF at = {} THEN chars
       ELSE SubSeq(chars, (CHOOSE i \in at : \A j \in at : i <= j) + 1, Len(chars))
AfterLast(chars, c) ==
    LET at == {i \in 1..Len(chars) : chars[i] = c}
    IN IF at = {} THEN chars
       ELSE SubSeq(chars, (CHOOSE i \in at : \A j \in at : j <= i) + 1, Len(chars))

\* the value of the final query parameter of a URL
FinalParameterValue(url) == Join(AfterFirst(AfterLast(AfterFirst(url, "?"), "&"), "="))

\* the next link of the last response, when it has one
HasNext ==
    /\ response # NoneObj
    /\ response.status_code = 200
    /\ response.json \notin {InvalidJSON, NoneObj}
    /\ "links" \in Keys(response.json)
    /\ Item(response.json, "links") # NoneObj
    /\ "next" \in DOMAIN Item(response.json, "links")
    /\ Item(response.json, "links")["next"] # NoneObj

\* C8: the cursor a request extracts is the whole value of the final query
\* parameter of links.next.
CursorIsFinalParameterValue ==
    (command \in RequestOps /\ uncaught = NoExc /\ HasNext) =>
        ret.cursor = FinalParameterValue(Item(response.json, "links")["next"].str)

\* the parsed response lacks num_pages or links.next
LacksRequired ==
    /\ response # NoneObj
    /\ response.status_code = 200
    /\ response.json # InvalidJSON
    /\ \/ response.json = NoneObj
       \/ "num_pages" \notin Keys(response.json)
       \/ ~HasNext

\* C9: a request whose parsed response lacks num_pages or links.next fails
\* with an exception, returns no payload and cursor, and is not repeated.
MissingFieldsFail ==
    (command \in RequestOps /\ LacksRequired) =>
        /\ uncaught \in {"KeyError", "TypeError", "AttributeError"}
        /\ ret = NoneObj
        /\ Len(http_log) = 1

\* a request answered without num_pages ended with KeyError
MissingNumPagesSeen ==
    /\ command \in RequestOps
    /\ LacksRequired
    /\ response.json # NoneObj
    /\ "num_pages" \notin Keys(response.json)
    /\ HasNext
    /\ uncaught = "KeyError"

\* C11: a request operation that fails, at whichever step, leaves the stored
\* payload and the stored cursor of the client as they were; one that
\* succeeds stores the payload and the cursor of the one response it
\* returns, so that the two fields are never updated separately.
FailureLeavesStoredPair ==
    [][command' \in RequestOps =>
          IF uncaught' # NoExc
          THEN api'._payload = api._payload /\ api'._cursor = api._cursor
          ELSE api'._payload = ret'.payload /\ api'._cursor = ret'.cursor]_vars

\* normalization of a response whose next link gives the cursor 'abc123'
\* failed while the client holds the table and the cursor 'x1' of an
\* earlier response
NormalizationFailedAfterSuccess ==
    /\ command \in RequestOps
    /\ uncaught = "AttributeError"
    /\ HasNext
    /\ "num_pages" \in Keys(response.json)
    /\ Item(response.json, "links")["next"].str = L_two
    /\ last_ok # NoneObj
    /\ api._cursor = "x1"
    /\ api._payload # NoneObj

\* n zero-padded to two digits
Pad2(n) == IF n < 10 THEN "0" \o Join(IntToChars(n)) ELSE Join(IntToChars(n))

\* the clock string of the specification
Clock(s) ==
    (IF s < 0 THEN "-" ELSE "")
        \o Pad2(abs(s) \div 3600) \o ":" \o Pad2((abs(s) % 3600) \div 60)

\* C10: for every integer s the seconds formatter returns '-' when s < 0,
\* then floor(|s|/3600) and floor((|s| mod 3600)/60), each zero-padded to
\* two digits, with ':' between them.
SecondsToClock ==
    command \in {"seconds_to_hours_mins", "sec_to_hour_min"} =>
        /\ fn_out.raised = NoExc
        /\ fn_out.value = Clock(fn_in)

====
